---------------------------- MODULE Spec2Model ----------------------------
(***************************************************************************)
(* Verification model of gibon, an IPFS-backed pastebin.                   *)
(*                                                                         *)
(* The variants of the service are modelled, each from its source:         *)
(*   - the paste cipher (paste.encrypt / paste.decrypt, AES-GCM keyed by   *)
(*     SHA-256 of the passphrase)                 src/unnamed/part_002     *)
(*   - the encryption variant's HTTP handlers     src/unnamed/part_002     *)
(*   - the structured (JSON envelope) variant     src/gibon.go:440-653     *)
(*   - the streaming unixfs variant               src/gibon.go:200-322     *)
(*   - the mapping between public and store paths src/gibon.go:599, 647    *)
(*                                                                         *)
(* Strings and byte slices are sequences.  Bytes are the bits 0 and 1 plus *)
(* the GCM tag symbols (numbers >= TagBase).  AES-GCM and SHA-256 are      *)
(* library code; they are modelled as ideal primitives: SHA-256 is         *)
(* injective on the passphrases, the GCM key stream is a function of key,  *)
(* nonce and position, and the GCM tag is an injective function of (key,   *)
(* nonce, ciphertext), realised as a table that is filled lazily.  The     *)
(* block store is content addressed: a block's CID is its position in the  *)
(* table of distinct blocks ever put.                                      *)
(***************************************************************************)
EXTENDS Integers, Sequences, FiniteSets, TLC

VARIABLES
    p,        \* the paste object under test: [text |-> bytes]      (SpecPaste)
    ops,      \* log of the operations applied to p                 (SpecPaste)
              \* [op, key, err, nonce drawn, text before, text after]
    sealed,   \* GCM tag table: <<key, nonce, ciphertext>> per tag
    store,    \* the block store: distinct blocks, CID = position
    reqs      \* the HTTP requests received so far, in order of arrival

vars == <<p, ops, sealed, store, reqs>>

---------------------------------------------------------------------------
(* Bounds.  The size limits are the program's constants, scaled down.      *)

\* maxPasteSize = 1048576 in the source (part_002:41, gibon.go:473)
maxPasteSize == 2
\* maxTitleSize = 100 in the source (gibon.go:474); "/paste/" and a CID fit
maxTitleSize == 9
\* gcmBlockCipher.NonceSize(), scaled down: 12 for the GCM of crypto/cipher
NonceSize == 1
\* number of operations applied to the paste object in SpecPaste
MaxOps == 3

---------------------------------------------------------------------------
(* Sequences and strings.                                                  *)

Bit == {0, 1}

RECURSIVE SeqsUpTo(_, _)
\* all sequences over S of length 0..n
SeqsUpTo(S, n) ==
    IF n = 0 THEN {<<>>}
    ELSE LET shorter == SeqsUpTo(S, n - 1)
         IN  shorter \cup {Append(s, x) : s \in {t \in shorter : Len(t) = n - 1}, x \in S}

SeqsOfLen(S, n) == {s \in SeqsUpTo(S, n) : Len(s) = n}

\* s[from..] and s[..to] as Go slices s[from:] and s[:to] (0-based bounds)
SliceFrom(s, from) == SubSeq(s, from + 1, Len(s))
SliceTo(s, to) == SubSeq(s, 1, to)

---------------------------------------------------------------------------
(* The cipher: library primitives as ideal functions.                      *)

\* a tag symbol is TagBase + its position in the tag table; 0 and 1 are bits
TagBase == Cardinality(Bit)

\* sha256.Sum256([]byte(key)): collision free on the passphrases used
Sum256Const(key) == 0
Sum256(key) ==
    CASE key = "" -> 0
      [] key = "secret" -> 1
      [] key = "wrong" -> 2

\* flipping the low bit of a byte
FlipBit(b) == IF b % 2 = 0 THEN b + 1 ELSE b - 1

RECURSIVE SumSeq(_)
SumSeq(s) == IF s = <<>> THEN 0 ELSE (s[1] % 2) + SumSeq(Tail(s))

\* the CTR key stream bit at position i for a key and a nonce
KeyStream(K, nonce, i) == (K + SumSeq(nonce) + i) % 2

\* CTR mode: XOR with the key stream (its own inverse)
XorKeyStream(K, nonce, s) ==
    [i \in 1..Len(s) |-> IF KeyStream(K, nonce, i) = 1 THEN FlipBit(s[i]) ELSE s[i]]

\* position of a triple in the tag table, 0 when absent
TagIndex(tbl, triple) ==
    IF \E i \in 1..Len(tbl) : tbl[i] = triple
    THEN CHOOSE i \in 1..Len(tbl) : tbl[i] = triple
    ELSE 0

\* the tag table after authenticating a triple
TagTable(tbl, triple) ==
    IF TagIndex(tbl, triple) = 0 THEN Append(tbl, triple) ELSE tbl

\* gcm.Seal(nil, nonce, plaintext, nil): ciphertext followed by the tag
Seal(tbl, K, nonce, plaintext) ==
    LET ct == XorKeyStream(K, nonce, plaintext)
        triple == <<K, nonce, ct>>
    IN  Append(ct, TagBase + TagIndex(TagTable(tbl, triple), triple))

\* gcm.Open(nil, nonce, ciphertext, nil): the plaintext, or an error when the
\* input is shorter than a tag or the tag does not authenticate
Open(tbl, K, nonce, ciphertext) ==
    IF Len(ciphertext) < 1
    THEN [err |-> TRUE, text |-> <<>>]
    ELSE LET ct == SliceTo(ciphertext, Len(ciphertext) - 1)
             tag == ciphertext[Len(ciphertext)]
             idx == TagIndex(tbl, <<K, nonce, ct>>)
         IN  IF idx = 0 \/ tag # TagBase + idx
             THEN [err |-> TRUE, text |-> <<>>]
             ELSE [err |-> FALSE, text |-> XorKeyStream(K, nonce, ct)]

\* newAESGCMBlockCiperForKey: the AEAD keyed by the hash of the passphrase
newAESGCMBlockCiperForKey(key) == Sum256(key)

\* the outcomes of rand.Read(nonce): the buffer filled with random bytes, or
\* an error (the buffer is then left as make() zeroed it)
Nonces == SeqsOfLen(Bit, NonceSize)
RandReads ==
    {[err |-> FALSE, nonce |-> n] : n \in Nonces}
        \cup {[err |-> TRUE, nonce |-> [i \in 1..NonceSize |-> 0]]}

\* paste.encrypt without the nonce prepended
encryptNoNonce(text, key, rnd, tbl) ==
    IF rnd.err
    THEN [err |-> TRUE, text |-> text, sealed |-> tbl]
    ELSE LET K == newAESGCMBlockCiperForKey(key)
             nonce == rnd.nonce
         IN  [err |-> FALSE,
              text |-> Seal(tbl, K, nonce, text),
              sealed |-> TagTable(tbl, <<K, nonce, XorKeyStream(K, nonce, text)>>)]

\* paste.encrypt that does not assign the blob to the paste's text
encryptKeepsText(text, key, rnd, tbl) ==
    IF rnd.err
    THEN [err |-> TRUE, text |-> text, sealed |-> tbl]
    ELSE LET K == newAESGCMBlockCiperForKey(key)
             nonce == rnd.nonce
         IN  [err |-> FALSE,
              text |-> text,
              sealed |-> TagTable(tbl, <<K, nonce, XorKeyStream(K, nonce, text)>>)]

\* paste.encrypt that leaves the nonce as make() zeroed it
encryptZeroNonce(text, key, rnd, tbl) ==
    IF rnd.err
    THEN [err |-> TRUE, text |-> text, sealed |-> tbl]
    ELSE LET K == newAESGCMBlockCiperForKey(key)
             nonce == [i \in 1..NonceSize |-> 0]
         IN  [err |-> FALSE,
              text |-> nonce \o Seal(tbl, K, nonce, text),
              sealed |-> TagTable(tbl, <<K, nonce, XorKeyStream(K, nonce, text)>>)]

\* paste.encrypt(key) on a paste with the given text; rnd is what
\* rand.Read delivered.  Result: the error flag, the paste's text after the
\* call and the tag table after the call.
encrypt(text, key, rnd, tbl) ==
    IF rnd.err
    THEN [err |-> TRUE, text |-> text, sealed |-> tbl]
    ELSE LET K == newAESGCMBlockCiperForKey(key)
             nonce == rnd.nonce
         IN  [err |-> FALSE,
              text |-> nonce \o Seal(tbl, K, nonce, text),
              sealed |-> TagTable(tbl, <<K, nonce, XorKeyStream(K, nonce, text)>>)]

\* paste.decrypt that assigns what Open returned before it looks at the
\* error
decryptAssignsFirst(text, key, tbl) ==
    LET K == newAESGCMBlockCiperForKey(key)
        opened == Open(tbl, K, SliceTo(text, NonceSize), SliceFrom(text, NonceSize))
    IN  [err |-> NonceSize > Len(text) \/ opened.err, text |-> opened.text]

\* paste.decrypt(key) on a paste with the given text: the error flag and the
\* paste's text after the call
decrypt(text, key, tbl) ==
    LET K == newAESGCMBlockCiperForKey(key)
    IN  IF NonceSize > Len(text)
        THEN [err |-> TRUE, text |-> text]
        ELSE LET opened == Open(tbl, K, SliceTo(text, NonceSize),
                                SliceFrom(text, NonceSize))
             IN  IF opened.err
                 THEN [err |-> TRUE, text |-> text]
                 ELSE [err |-> FALSE, text |-> opened.text]

---------------------------------------------------------------------------
(* SpecPaste: one paste object, encrypted, decrypted and tampered with.    *)

Passphrases == {"secret", "wrong"}

PlainTexts == SeqsUpTo(Bit, maxPasteSize)

InitPaste ==
    /\ p \in [text : PlainTexts]
    /\ ops = <<>>
    /\ sealed = <<>>
    /\ store = <<>>
    /\ reqs = <<>>

\* p.encrypt(key)
PasteEncrypt(key, rnd) ==
    /\ Len(ops) < MaxOps
    /\ LET r == encrypt(p.text, key, rnd, sealed)
       IN  /\ p' = [text |-> r.text]
           /\ sealed' = r.sealed
           /\ ops' = Append(ops, [op |-> "encrypt", key |-> key, err |-> r.err,
                                  nonce |-> rnd.nonce,
                                  before |-> p.text, after |-> r.text])
    /\ UNCHANGED <<store, reqs>>

\* p.decrypt(key)
PasteDecrypt(key) ==
    /\ Len(ops) < MaxOps
    /\ LET r == decrypt(p.text, key, sealed)
       IN  /\ p' = [text |-> r.text]
           /\ ops' = Append(ops, [op |-> "decrypt", key |-> key, err |-> r.err,
                                  nonce |-> <<>>,
                                  before |-> p.text, after |-> r.text])
    /\ UNCHANGED <<sealed, store, reqs>>

\* one bit of the blob is flipped between encrypt and decrypt
PasteFlip(i) ==
    /\ Len(ops) < MaxOps
    /\ i \in 1..Len(p.text)
    /\ LET t == [p.text EXCEPT ![i] = FlipBit(@)]
       IN  /\ p' = [text |-> t]
           /\ ops' = Append(ops, [op |-> "flip", key |-> "", err |-> FALSE,
                                  nonce |-> <<>>,
                                  before |-> p.text, after |-> t])
    /\ UNCHANGED <<sealed, store, reqs>>

NextPaste ==
    \/ \E key \in Passphrases, rnd \in RandReads : PasteEncrypt(key, rnd)
    \/ \E key \in Passphrases : PasteDecrypt(key)
    \/ \E i \in 1..(maxPasteSize + 2 * (NonceSize + 1)) : PasteFlip(i)

SpecPaste == InitPaste /\ [][NextPaste]_vars

---------------------------------------------------------------------------
(* The encryption variant's handlers (src/unnamed/part_002).               *)

pastePrefix == <<"/", "p", "a", "s", "t", "e", "/">>
ipfsPrefix == <<"/", "i", "p", "l", "d", "/">>

StatusOK == 200
StatusNotFound == 404
StatusInternalServerError == 500

\* the deadline of getPaste has no numeric role: it either fires while the
\* lookup is pending or the lookup resolves first
HasPrefix(s, prefix) ==
    Len(s) >= Len(prefix) /\ SubSeq(s, 1, Len(prefix)) = prefix

\* position of the last occurrence of old in s, 0 when there is none
IndexLast(s, old) ==
    LET hits == {i \in 1..(Len(s) - Len(old) + 1) : SubSeq(s, i, i + Len(old) - 1) = old}
    IN  IF hits = {} THEN 0 ELSE CHOOSE i \in hits : \A j \in hits : i >= j

\* position of the first occurrence of old in s, 0 when there is none
Index(s, old) ==
    LET hits == {i \in 1..(Len(s) - Len(old) + 1) : SubSeq(s, i, i + Len(old) - 1) = old}
    IN  IF hits = {} THEN 0 ELSE CHOOSE i \in hits : \A j \in hits : i <= j

\* strings.Replace(s, old, new, 1)
Replace1(s, old, new) ==
    LET i == Index(s, old)
    IN  IF i = 0 THEN s
        ELSE SubSeq(s, 1, i - 1) \o new \o SubSeq(s, i + Len(old), Len(s))

\* the text form of the CID of the i-th distinct block of the store
CidDigits == <<"1", "2", "3", "4", "5", "6", "7", "8", "9">>
CidString(i) == <<"Q", CidDigits[i]>>

\* a CID string no block has
NoSuchCid == <<"Q", "x">>

\* position in the store of the block a CID string names, 0 when absent
LookupCid(blocks, cid) ==
    IF \E i \in 1..Len(blocks) : CidString(i) = cid
    THEN CHOOSE i \in 1..Len(blocks) : CidString(i) = cid
    ELSE 0

\* position of a block in the store, 0 when absent
BlockIndex(blocks, b) ==
    IF \E i \in 1..Len(blocks) : blocks[i] = b
    THEN CHOOSE i \in 1..Len(blocks) : blocks[i] = b
    ELSE 0

\* the store after Block().Put of b: same bytes, same CID
BlockPut(blocks, b) ==
    IF BlockIndex(blocks, b) = 0 THEN Append(blocks, b) ELSE blocks

\* stat.Path().String() of a block: the IPLD path of its CID
BlockPath(blocks, b) == ipfsPrefix \o CidString(BlockIndex(blocks, b))

\* request.URL.Query().Get("key"): "" when the parameter is absent
QueryGet(query) == IF query = <<>> THEN "" ELSE query[1]

\* io.LimitReader(reader, n) read to the end
LimitRead(b, n) == IF Len(b) > n THEN SliceTo(b, n) ELSE b

\* a request as the server received it, before its handler has run
NewRequest(method, cid, query, body) ==
    [method |-> method, cid |-> cid, query |-> query, body |-> body,
     pc |-> "received", deadline |-> FALSE, text |-> <<>>,
     outcome |-> "none", calls |-> 0,
     prior |-> {i \in 1..Len(reqs) : reqs[i].pc = "done"},
     status |-> 0, msg |-> "", data |-> <<>>, path |-> <<>>]

\* http.Error(writer, msg, status)
HttpError(r, msg, status) ==
    [r EXCEPT !.pc = "done", !.status = status, !.msg = msg]

\* writer.Write(data) of a paste's bytes
WriteData(r, data) ==
    [r EXCEPT !.pc = "done", !.status = StatusOK, !.data = data]

\* writer.Write([]byte(pathStr))
WritePath(r, pathStr) ==
    [r EXCEPT !.pc = "done", !.status = StatusOK, !.path = pathStr]

\* getPaste up to the call of Block().Get, without the deadline
getPasteCallNoDeadline(r) ==
    [r EXCEPT !.pc = "store", !.deadline = FALSE, !.calls = @ + 1]

\* getPaste up to the call of Block().Get: the lookup is made under a
\* context with the deadline now + unixfsGetTimeout
getPasteCall(r) ==
    [r EXCEPT !.pc = "store", !.deadline = TRUE, !.calls = @ + 1]

\* getPasteHandler once getPaste returned an error
getPasteFailed(r) == HttpError(r, "Paste not found!", StatusNotFound)

\* getPasteHandler that writes the paste whatever decrypt returned
getPasteFetchedNoCheck(r, b, tbl) ==
    LET key == QueryGet(r.query)
    IN  IF key # "" THEN WriteData(r, decrypt(b, key, tbl).text) ELSE WriteData(r, b)

\* getPasteHandler once getPaste returned the paste with text b
getPasteFetched(r, b, tbl) ==
    LET key == QueryGet(r.query)
    IN  IF key # ""
        THEN LET d == decrypt(b, key, tbl)
             IN  IF d.err
                 THEN HttpError(r, "Paste decryption failed!", StatusInternalServerError)
                 ELSE WriteData(r, d.text)
        ELSE WriteData(r, b)

\* getPaste once Block().Get returned a reader: the bytes it reads
getPasteRead(block) == LimitRead(block, maxPasteSize)

\* putPasteHandler that answers a store error as if the paste were absent
putPasteFailedNotFound(r) == HttpError(r, "Paste not found!", StatusNotFound)

\* putPasteHandler once putPaste returned an error
putPasteFailed(r) ==
    HttpError(r, "Failed to put paste in store", StatusInternalServerError)

\* putPasteHandler that returns the store's own path
putPasteStoredRawPath(r, pathStr) == WritePath(r, pathStr)

\* putPasteHandler once putPaste returned the path of the stored block
putPasteStored(r, pathStr) ==
    WritePath(r, Replace1(pathStr, ipfsPrefix, pastePrefix))

\* putPasteHandler from the start to the call of Block().Put (or to the
\* error response that ends it earlier); rnd is what rand.Read delivers
putPasteHandlerCall(r, rnd, tbl) ==
    IF Len(r.body) > maxPasteSize
    THEN [req |-> HttpError(r, "Failed to read request", StatusInternalServerError),
          sealed |-> tbl]
    ELSE LET key == QueryGet(r.query)
             e == encrypt(r.body, key, rnd, tbl)
         IN  IF key # ""
             THEN IF e.err
                  THEN [req |-> HttpError(r, "Paste encryption failed!",
                                          StatusInternalServerError),
                        sealed |-> tbl]
                  ELSE [req |-> [r EXCEPT !.pc = "store", !.text = e.text,
                                          !.calls = @ + 1],
                        sealed |-> e.sealed]
             ELSE [req |-> [r EXCEPT !.pc = "store", !.text = r.body,
                                     !.calls = @ + 1],
                   sealed |-> tbl]

---------------------------------------------------------------------------
(* SpecEnc: the encryption variant serving requests concurrently.          *)

\* number of requests received in one run
MaxRequests == 2

\* request bodies: one of every length up to one byte more than the POST
\* handler accepts
BodyOfLen(n) == [i \in 1..n |-> i % 2]
Bodies == {BodyOfLen(n) : n \in 0..(maxPasteSize + 1)}

\* rand.Read filling the nonce with zeros
ZeroRead == [err |-> FALSE, nonce |-> [i \in 1..NonceSize |-> 0]]

\* the POST requests: every body without a key and with the key "secret",
\* one body with every outcome of rand.Read, two bodies with an empty key
PostInputs ==
    {[body |-> b, query |-> q, rnd |-> ZeroRead] : b \in Bodies, q \in {<<>>, <<"secret">>}}
        \cup {[body |-> <<1>>, query |-> <<"secret">>, rnd |-> r] : r \in RandReads}
        \cup {[body |-> b, query |-> <<"">>, rnd |-> ZeroRead] : b \in {<<>>, <<1>>}}

Flips(b) == {[b EXCEPT ![i] = FlipBit(@)] : i \in 1..Len(b)}

Cids == {CidString(i) : i \in 1..Len(store)} \cup {NoSuchCid}

\* the GET requests: every CID without a key and with the key "secret",
\* the first block's CID with an empty key and with the key "wrong"
GetInputs ==
    {[cid |-> c, query |-> q] : c \in Cids, q \in {<<>>, <<"secret">>}}
        \cup {[cid |-> CidString(1), query |-> q] : q \in {<<"">>, <<"wrong">>}}

\* The repository the server opens may hold blocks of earlier runs: here
\* none, or an empty paste encrypted under "secret" of which the first bit
\* has been flipped since.
EarlierPaste ==
    encrypt(<<>>, "secret", ZeroRead, <<>>)

InitEnc ==
    /\ p = [text |-> <<>>]
    /\ ops = <<>>
    /\ reqs = <<>>
    /\ \/ store = <<>> /\ sealed = <<>>
       \/ /\ store = <<[EarlierPaste.text EXCEPT ![1] = FlipBit(@)]>>
          /\ sealed = EarlierPaste.sealed

Pending(i) == i \in 1..Len(reqs) /\ reqs[i].pc = "store"
Done(i) == i \in 1..Len(reqs) /\ reqs[i].pc = "done"

\* POST /: putPasteHandler runs to its first blocking call
PostArrives(body, query, rnd) ==
    /\ Len(reqs) < MaxRequests
    /\ LET r == putPasteHandlerCall(NewRequest("POST", <<>>, query, body), rnd, sealed)
       IN  /\ reqs' = Append(reqs, r.req)
           /\ sealed' = r.sealed
    /\ UNCHANGED <<p, ops, store>>

\* Block().Put returns the stat of the stored block
PutReturns(i) ==
    /\ Pending(i) /\ reqs[i].method = "POST"
    /\ store' = BlockPut(store, reqs[i].text)
    /\ reqs' = [reqs EXCEPT ![i] =
                   putPasteStored([@ EXCEPT !.outcome = "ok"],
                                  BlockPath(store', reqs[i].text))]
    /\ UNCHANGED <<p, ops, sealed>>

\* Block().Put returns an error
PutFails(i) ==
    /\ Pending(i) /\ reqs[i].method = "POST"
    /\ reqs' = [reqs EXCEPT ![i] = putPasteFailed([@ EXCEPT !.outcome = "error"])]
    /\ UNCHANGED <<p, ops, sealed, store>>

\* GET /paste/:cid: getPasteHandler runs to its first blocking call
GetArrives(cid, query) ==
    /\ Len(reqs) < MaxRequests
    /\ reqs' = Append(reqs, getPasteCall(NewRequest("GET", cid, query, <<>>)))
    /\ UNCHANGED <<p, ops, sealed, store>>

\* Block().Get returns a reader for the block
GetReturns(i) ==
    /\ Pending(i) /\ reqs[i].method = "GET"
    /\ LookupCid(store, reqs[i].cid) # 0
    /\ reqs' = [reqs EXCEPT ![i] =
                   getPasteFetched([@ EXCEPT !.outcome = "found"],
                                   getPasteRead(store[LookupCid(store, reqs[i].cid)]),
                                   sealed)]
    /\ UNCHANGED <<p, ops, sealed, store>>

\* Block().Get reports that the store has no such block
GetAbsent(i) ==
    /\ Pending(i) /\ reqs[i].method = "GET"
    /\ LookupCid(store, reqs[i].cid) = 0
    /\ reqs' = [reqs EXCEPT ![i] = getPasteFailed([@ EXCEPT !.outcome = "absent"])]
    /\ UNCHANGED <<p, ops, sealed, store>>

\* a failing lookup that cancels globalContext instead of its own context:
\* every lookup in flight fails with it
GetFailsCancelsAll(i) ==
    /\ Pending(i) /\ reqs[i].method = "GET"
    /\ reqs' = [k \in 1..Len(reqs) |->
                   IF Pending(k) /\ reqs[k].method = "GET"
                   THEN getPasteFailed([reqs[k] EXCEPT !.outcome = "error"])
                   ELSE reqs[k]]
    /\ UNCHANGED <<p, ops, sealed, store>>

\* Block().Get fails for another reason
GetFails(i) ==
    /\ Pending(i) /\ reqs[i].method = "GET"
    /\ reqs' = [reqs EXCEPT ![i] = getPasteFailed([@ EXCEPT !.outcome = "error"])]
    /\ UNCHANGED <<p, ops, sealed, store>>

\* the deadline of the lookup's context fires: Block().Get returns its error
GetDeadline(i) ==
    /\ Pending(i) /\ reqs[i].method = "GET"
    /\ reqs[i].deadline
    /\ reqs' = [reqs EXCEPT ![i] = getPasteFailed([@ EXCEPT !.outcome = "timeout"])]
    /\ UNCHANGED <<p, ops, sealed, store>>

NextEnc ==
    \/ \E in \in PostInputs : PostArrives(in.body, in.query, in.rnd)
    \/ \E in \in GetInputs : GetArrives(in.cid, in.query)
    \/ \E i \in 1..MaxRequests : PutReturns(i)
    \/ \E i \in 1..MaxRequests : PutFails(i)
    \/ \E i \in 1..MaxRequests : GetReturns(i)
    \/ \E i \in 1..MaxRequests : GetAbsent(i)
    \/ \E i \in 1..MaxRequests : GetFails(i)
    \/ \E i \in 1..MaxRequests : GetDeadline(i)

SpecEnc == InitEnc /\ [][NextEnc]_vars

\* SpecGet: the server answering GET requests only, on a repository that
\* holds an encrypted and a plain paste.  The timer of a deadline context
\* fires once its time has come: weak fairness of GetDeadline.
InitGet ==
    /\ p = [text |-> <<>>]
    /\ ops = <<>>
    /\ reqs = <<>>
    /\ store = <<EarlierPaste.text, BodyOfLen(maxPasteSize)>>
    /\ sealed = EarlierPaste.sealed

NextGet ==
    \/ \E in \in GetInputs : GetArrives(in.cid, in.query)
    \/ \E i \in 1..MaxRequests : GetReturns(i)
    \/ \E i \in 1..MaxRequests : GetAbsent(i)
    \/ \E i \in 1..MaxRequests : GetFails(i)
    \/ \E i \in 1..MaxRequests : GetDeadline(i)

SpecGet ==
    InitGet /\ [][NextGet]_vars /\ \A i \in 1..MaxRequests : WF_vars(GetDeadline(i))

---------------------------------------------------------------------------
(* The structured variant: the Paste envelope (src/gibon.go:500-527).      *)

LowerSeq == <<"a", "b", "c", "d", "e", "f", "g", "h", "i", "j", "k", "l", "m",
              "n", "o", "p", "q", "r", "s", "t", "u", "v", "w", "x", "y", "z">>
UpperSeq == <<"A", "B", "C", "D", "E", "F", "G", "H", "I", "J", "K", "L", "M",
              "N", "O", "P", "Q", "R", "S", "T", "U", "V", "W", "X", "Y", "Z">>
DigitSeq == <<"0", "1", "2", "3", "4", "5", "6", "7", "8", "9">>
Range(f) == {f[i] : i \in DOMAIN f}

\* validPasteName without the anchors ^ and $: the empty match is found in
\* every string
validPasteNameUnanchored(s) == TRUE

\* validPasteName.MatchString(s) for ^([a-z]|[A-Z]|[0-9]|\.)*$
validPasteName(s) ==
    \A i \in 1..Len(s) :
        s[i] \in Range(LowerSeq) \cup Range(UpperSeq) \cup Range(DigitSeq) \cup {"."}

\* newPaste(name, raw)
newPaste(name, raw) == [Name |-> name, Text |-> raw]

\* p.toJSON(): the fields pasted between the fixed pieces of the object
toJSON(paste) ==
    <<"{", "\"", "n", "a", "m", "e", "\"", ":", "\"">> \o paste.Name
        \o <<"\"", ",", "\"", "t", "e", "x", "t", "\"", ":", "\"">> \o paste.Text
        \o <<"\"", "}">>

\* encoding/json, for the documents made of objects, strings, whole numbers
\* and white space (hex escapes, fractions, arrays and literals are not in
\* the alphabet of the model).  Unmarshal first checks the syntax of the
\* whole document and decodes nothing when it is wrong; a number met where a
\* field wants a string is a type error, which Unmarshal notes and returns
\* after having decoded the rest of the document.
JSONSpace == {" ", "TAB", "LF", "CR"}
JSONControl == {"TAB", "LF", "CR", "BS", "FF"}

\* the character an escape \c stands for, "" when \c is no escape
Unescape(c) ==
    CASE c = "\"" -> "\""
      [] c = "\\" -> "\\"
      [] c = "/" -> "/"
      [] c = "b" -> "BS"
      [] c = "f" -> "FF"
      [] c = "n" -> "LF"
      [] c = "r" -> "CR"
      [] c = "t" -> "TAB"
      [] OTHER -> ""

RECURSIVE SkipSpace(_, _)
\* the first position from i on that holds no white space
SkipSpace(b, i) ==
    IF i <= Len(b) /\ b[i] \in JSONSpace THEN SkipSpace(b, i + 1) ELSE i

RECURSIVE ScanString(_, _, _)
\* the string literal whose opening quote is before position i: its value
\* so far is acc; result: ok, the value, and the position after the closing
\* quote
ScanString(b, i, acc) ==
    IF i > Len(b) THEN [ok |-> FALSE, val |-> acc, next |-> i]
    ELSE IF b[i] = "\"" THEN [ok |-> TRUE, val |-> acc, next |-> i + 1]
    ELSE IF b[i] \in JSONControl THEN [ok |-> FALSE, val |-> acc, next |-> i]
    ELSE IF b[i] = "\\"
         THEN IF i + 1 > Len(b) \/ Unescape(b[i + 1]) = ""
              THEN [ok |-> FALSE, val |-> acc, next |-> i]
              ELSE ScanString(b, i + 2, Append(acc, Unescape(b[i + 1])))
    ELSE ScanString(b, i + 1, Append(acc, b[i]))

\* a string literal starting at position i
ParseString(b, i) ==
    IF i <= Len(b) /\ b[i] = "\""
    THEN ScanString(b, i + 1, <<>>)
    ELSE [ok |-> FALSE, val |-> <<>>, next |-> i]

RECURSIVE ScanDigits(_, _)
\* the first position from i on that holds no digit
ScanDigits(b, i) ==
    IF i <= Len(b) /\ b[i] \in Range(DigitSeq) THEN ScanDigits(b, i + 1) ELSE i

\* a whole number starting at position i: 0, or digits without a leading 0
ParseNumber(b, i) ==
    IF i <= Len(b) /\ b[i] = "0"
    THEN [ok |-> TRUE, val |-> <<>>, next |-> i + 1]
    ELSE [ok |-> ScanDigits(b, i) > i, val |-> <<>>, next |-> ScanDigits(b, i)]

\* a value starting at position i: a string or a number
ParseValue(b, i) ==
    IF i <= Len(b) /\ b[i] \in Range(DigitSeq)
    THEN [kind |-> "number"] @@ ParseNumber(b, i)
    ELSE [kind |-> "string"] @@ ParseString(b, i)

\* strings.ToLower on one ASCII character
ToLower(c) ==
    IF \E i \in 1..Len(UpperSeq) : UpperSeq[i] = c
    THEN LowerSeq[CHOOSE i \in 1..Len(UpperSeq) : UpperSeq[i] = c]
    ELSE c

\* the key of a member names the field (json matches keys without case)
KeyIs(key, field) == [i \in 1..Len(key) |-> ToLower(key[i])] = field

\* the member key names a field of Paste
IsField(key) == KeyIs(key, <<"n", "a", "m", "e">>) \/ KeyIs(key, <<"t", "e", "x", "t">>)

\* the Paste after the member key: val has been decoded into it
SetField(paste, key, val) ==
    IF KeyIs(key, <<"n", "a", "m", "e">>) THEN [paste EXCEPT !.Name = val]
    ELSE IF KeyIs(key, <<"t", "e", "x", "t">>) THEN [paste EXCEPT !.Text = val]
    ELSE paste

\* the decoding state after the member key with the value v: a string is
\* stored in its field, a number for a field is noted as a type error
Decoded(acc, key, v) ==
    IF v.kind = "string"
    THEN [acc EXCEPT !.paste = SetField(@, key, v.val)]
    ELSE [acc EXCEPT !.typeErr = @ \/ IsField(key)]

RECURSIVE ParseMembers(_, _, _)
\* the members of an object from position i (the first key) on, decoded
\* into acc = [paste, typeErr]; result: ok, the decoding state, and the
\* position after the closing brace
ParseMembers(b, i, acc) ==
    LET key == ParseString(b, SkipSpace(b, i))
        colon == SkipSpace(b, key.next)
        val == ParseValue(b, SkipSpace(b, colon + 1))
        after == SkipSpace(b, val.next)
        bad == [ok |-> FALSE, acc |-> acc, next |-> i]
    IN  IF ~key.ok THEN bad
        ELSE IF colon > Len(b) \/ b[colon] # ":" THEN bad
        ELSE IF ~val.ok THEN bad
        ELSE IF after > Len(b) THEN bad
        ELSE IF b[after] = "}"
             THEN [ok |-> TRUE, acc |-> Decoded(acc, key.val, val), next |-> after + 1]
        ELSE IF b[after] = ","
             THEN ParseMembers(b, after + 1, Decoded(acc, key.val, val))
        ELSE bad

\* the object that is the whole document b, decoded into paste: ok is the
\* verdict on the syntax, typeErr the noted type error
ParseDocument(b, paste) ==
    LET open == SkipSpace(b, 1)
        first == SkipSpace(b, open + 1)
        bad == [ok |-> FALSE, typeErr |-> FALSE, paste |-> paste]
    IN  IF open > Len(b) \/ b[open] # "{" THEN bad
        ELSE IF first <= Len(b) /\ b[first] = "}"
             THEN [ok |-> SkipSpace(b, first + 1) > Len(b), typeErr |-> FALSE,
                   paste |-> paste]
        ELSE LET m == ParseMembers(b, first, [paste |-> paste, typeErr |-> FALSE])
             IN  IF m.ok /\ SkipSpace(b, m.next) > Len(b)
                 THEN [ok |-> TRUE, typeErr |-> m.acc.typeErr, paste |-> m.acc.paste]
                 ELSE bad

\* pasteFromJSON(b): json.Unmarshal into a fresh Paste, which is returned
\* together with the error: as it was made after a syntax error, with the
\* other members decoded into it after a type error
pasteFromJSON(b) ==
    LET fresh == [Name |-> <<>>, Text |-> <<>>]
        d == ParseDocument(b, fresh)
    IN  IF d.ok THEN [err |-> d.typeErr, paste |-> d.paste]
        ELSE [err |-> TRUE, paste |-> fresh]

---------------------------------------------------------------------------
(* SpecEnvelope: a Paste encoded with toJSON and decoded again.            *)

\* the characters paste texts are made of: a letter, the quote, the backslash
TextChars == {"a", "\"", "\\"}
Texts == SeqsUpTo(TextChars, maxPasteSize)
Names == SeqsUpTo({"a", "Z", "0", "."}, 2)

InitEnvelope ==
    /\ p \in {newPaste(name, text) : name \in Names, text \in Texts}
    /\ ops = <<>>
    /\ sealed = <<>>
    /\ store = <<>>
    /\ reqs = <<>>

\* p.toJSON()
Encode ==
    /\ ops = <<>>
    /\ ops' = <<[op |-> "toJSON", out |-> toJSON(p)]>>
    /\ UNCHANGED <<p, sealed, store, reqs>>

\* pasteFromJSON of the bytes toJSON returned
Decode ==
    /\ Len(ops) = 1
    /\ ops' = Append(ops, [op |-> "pasteFromJSON", out |-> pasteFromJSON(ops[1].out)])
    /\ UNCHANGED <<p, sealed, store, reqs>>

NextEnvelope == Encode \/ Decode

SpecEnvelope == InitEnvelope /\ [][NextEnvelope]_vars

---------------------------------------------------------------------------
(* The structured variant's handler (src/gibon.go:529-653).                *)

StatusBadRequest == 400
StatusNotAcceptable == 406

\* the allowance of maxJSONSize for the fixed pieces of the object
JSONAllowance == 100
\* maxJSONSize without the allowance
maxJSONSizeNoAllowance == maxPasteSize + maxTitleSize
maxJSONSize == maxPasteSize + maxTitleSize + JSONAllowance

\* path.IsAbs(rawPath)
IsAbs(rawPath) == Len(rawPath) > 0 /\ rawPath[1] = "/"

\* strings.TrimPrefix(rawPath, "/")
TrimSlash(rawPath) == IF HasPrefix(rawPath, <<"/">>) THEN Tail(rawPath) ELSE rawPath

\* the block an IPLD path names: its position in the store, 0 when absent
LookupPath(blocks, pathStr) ==
    IF HasPrefix(pathStr, ipfsPrefix)
    THEN LookupCid(blocks, SliceFrom(pathStr, Len(ipfsPrefix)))
    ELSE 0

\* a request as the server received it, before ServeHTTP has run
NewServeRequest(method, rawPath, ctype, body) ==
    [method |-> method, rawPath |-> rawPath, ctype |-> ctype, body |-> body,
     pc |-> "received", deadline |-> FALSE, text |-> <<>>, lookup |-> <<>>,
     outcome |-> "none", calls |-> 0, bodyRead |-> FALSE,
     got |-> [err |-> FALSE, paste |-> [Name |-> <<>>, Text |-> <<>>]],
     prior |-> {i \in 1..Len(reqs) : reqs[i].pc = "done"},
     status |-> 0, msg |-> "", data |-> <<>>, path |-> <<>>]

\* w.Write([]byte(rootHelpStr))
WriteHelp(r) == [r EXCEPT !.pc = "done", !.status = StatusOK, !.msg = "rootHelpStr"]

\* ServeHTTP from the start to the call of the store (or to the response
\* that ends it earlier)
ServeHTTPCall(r) ==
    IF ~IsAbs(r.rawPath) \/ Len(r.rawPath) > maxTitleSize
    THEN HttpError(r, "Illegal paste path!", StatusNotAcceptable)
    ELSE IF r.method = "GET"
    THEN IF r.rawPath = <<"/">> THEN WriteHelp(r)
         ELSE IF ~HasPrefix(r.rawPath, pastePrefix)
              THEN HttpError(r, "Illegal paste path!", StatusNotAcceptable)
         ELSE [r EXCEPT !.pc = "store", !.deadline = TRUE, !.calls = @ + 1,
                        !.lookup = Replace1(r.rawPath, pastePrefix, ipfsPrefix)]
    ELSE IF r.method = "POST"
    THEN LET name == TrimSlash(r.rawPath)
         IN  IF ~validPasteName(name)
             THEN HttpError(r, "Invalid paste name!", StatusBadRequest)
             ELSE IF Len(r.body) > maxPasteSize
                  THEN HttpError([r EXCEPT !.bodyRead = TRUE],
                                 "Failed to read request", StatusInternalServerError)
             ELSE [r EXCEPT !.pc = "store", !.bodyRead = TRUE, !.calls = @ + 1,
                            !.text = toJSON(newPaste(name, r.body))]
    ELSE [r EXCEPT !.pc = "done", !.status = StatusOK]

\* ServeHTTP (GET) once getPaste returned the Paste
ServeFetched(r, paste) ==
    IF r.ctype = "application/json"
    THEN WriteData(r, toJSON(paste))
    ELSE WriteData(r, paste.Text)

\* ServeHTTP (GET) once Block().Get returned the block: getPaste reads and
\* decodes it, and an error of the decoding is an error of getPaste
ServeBlock(r, block) ==
    LET d == pasteFromJSON(LimitRead(block, maxJSONSize))
    IN  IF d.err THEN getPasteFailed([r EXCEPT !.got = d])
        ELSE ServeFetched([r EXCEPT !.got = d], d.paste)

---------------------------------------------------------------------------
(* SpecServe: the structured variant serving requests concurrently.        *)

NameOfLen(n) == [i \in 1..n |-> IF i % 2 = 1 THEN "a" ELSE "."]

\* names of allowed characters, of the lengths around the limits
GoodNames == {NameOfLen(n) : n \in {0, 1, maxTitleSize - 1, maxTitleSize, maxTitleSize + 1}}

\* names holding a character that is not allowed
BadNames ==
    {<<"_">>, <<"/">>, <<"a", "_">>, <<"-", "a">>, <<"a", "/", "a">>,
     [NameOfLen(maxTitleSize) EXCEPT ![maxTitleSize] = "_"]}

TextOfLen(n) == [i \in 1..n |-> "a"]
ServeBodies == {<<>>, <<"\"">>, TextOfLen(maxPasteSize), TextOfLen(maxPasteSize + 1)}

\* the requests: a POST of every name, a POST of every body, a POST of the
\* longest name with the longest body that are accepted, a GET of the
\* root, of every stored paste, of an unknown paste and of a path without
\* the paste prefix, and a request of another method
ServeInputs ==
    {[method |-> "POST", rawPath |-> <<"/">> \o n, ctype |-> "", body |-> <<"a">>] :
        n \in GoodNames \cup BadNames}
        \cup {[method |-> "POST", rawPath |-> <<"/", "a">>, ctype |-> "", body |-> b] :
                 b \in ServeBodies}
        \cup {[method |-> "POST", rawPath |-> <<"/">> \o NameOfLen(maxTitleSize - 1),
                ctype |-> "", body |-> TextOfLen(maxPasteSize)]}
        \cup {[method |-> "POST", rawPath |-> rp, ctype |-> "", body |-> b] :
                 rp \in {<<"a">>, <<"/", "_">>}, b \in {TextOfLen(maxPasteSize + 1)}}
        \cup {[method |-> "GET", rawPath |-> rp, ctype |-> ct, body |-> <<>>] :
                 rp \in {pastePrefix \o c : c \in Cids}, ct \in {"", "application/json"}}
        \cup {[method |-> "GET", rawPath |-> rp, ctype |-> "", body |-> <<>>] :
                 rp \in {<<"/">>, <<"/", "a">>}}
        \cup {[method |-> "DELETE", rawPath |-> <<"/">>, ctype |-> "", body |-> <<>>]}

\* a block that some other user of the store has put: an object whose text
\* member is a number
ForeignBlock ==
    <<"{", "\"", "n", "a", "m", "e", "\"", ":", "\"", "a", "\"", ",",
      "\"", "t", "e", "x", "t", "\"", ":", "1", "}">>

\* the store may hold blocks that this service did not put
InitServe ==
    /\ p = [text |-> <<>>]
    /\ ops = <<>>
    /\ sealed = <<>>
    /\ store \in {<<>>, <<ForeignBlock>>}
    /\ reqs = <<>>

\* a request arrives: ServeHTTP runs to its first blocking call
ServeArrives(in) ==
    /\ Len(reqs) < MaxRequests
    /\ reqs' = Append(reqs, ServeHTTPCall(
                   NewServeRequest(in.method, in.rawPath, in.ctype, in.body)))
    /\ UNCHANGED <<p, ops, sealed, store>>

\* Block().Put returns the stat of the stored block
ServePutReturns(i) ==
    /\ Pending(i) /\ reqs[i].method = "POST"
    /\ store' = BlockPut(store, reqs[i].text)
    /\ reqs' = [reqs EXCEPT ![i] =
                   putPasteStored([@ EXCEPT !.outcome = "ok"],
                                  BlockPath(store', reqs[i].text))]
    /\ UNCHANGED <<p, ops, sealed>>

\* Block().Put returns an error
ServePutFails(i) ==
    /\ Pending(i) /\ reqs[i].method = "POST"
    /\ reqs' = [reqs EXCEPT ![i] = putPasteFailed([@ EXCEPT !.outcome = "error"])]
    /\ UNCHANGED <<p, ops, sealed, store>>

\* Block().Get returns a reader for the block
ServeGetReturns(i) ==
    /\ Pending(i) /\ reqs[i].method = "GET"
    /\ LookupPath(store, reqs[i].lookup) # 0
    /\ reqs' = [reqs EXCEPT ![i] =
                   ServeBlock([@ EXCEPT !.outcome = "found"],
                              store[LookupPath(store, reqs[i].lookup)])]
    /\ UNCHANGED <<p, ops, sealed, store>>

\* Block().Get reports that the store has no such block
ServeGetAbsent(i) ==
    /\ Pending(i) /\ reqs[i].method = "GET"
    /\ LookupPath(store, reqs[i].lookup) = 0
    /\ reqs' = [reqs EXCEPT ![i] = getPasteFailed([@ EXCEPT !.outcome = "absent"])]
    /\ UNCHANGED <<p, ops, sealed, store>>

\* Block().Get fails for another reason
ServeGetFails(i) ==
    /\ Pending(i) /\ reqs[i].method = "GET"
    /\ reqs' = [reqs EXCEPT ![i] = getPasteFailed([@ EXCEPT !.outcome = "error"])]
    /\ UNCHANGED <<p, ops, sealed, store>>

\* the deadline of the lookup's context fires: Block().Get returns its error
ServeGetDeadline(i) ==
    /\ Pending(i) /\ reqs[i].method = "GET"
    /\ reqs[i].deadline
    /\ reqs' = [reqs EXCEPT ![i] = getPasteFailed([@ EXCEPT !.outcome = "timeout"])]
    /\ UNCHANGED <<p, ops, sealed, store>>

NextServe ==
    \/ \E in \in ServeInputs : ServeArrives(in)
    \/ \E i \in 1..MaxRequests : ServePutReturns(i)
    \/ \E i \in 1..MaxRequests : ServePutFails(i)
    \/ \E i \in 1..MaxRequests : ServeGetReturns(i)
    \/ \E i \in 1..MaxRequests : ServeGetAbsent(i)
    \/ \E i \in 1..MaxRequests : ServeGetFails(i)
    \/ \E i \in 1..MaxRequests : ServeGetDeadline(i)

SpecServe == InitServe /\ [][NextServe]_vars

---------------------------------------------------------------------------
(* The streaming unixfs variant (src/gibon.go:200-322).  The store holds   *)
(* unixfs nodes, [file |-> is it a file, data |-> its bytes]; a file is    *)
(* kept in chunks of ChunkSize bytes, of which Unixfs().Get fetches the     *)
(* first and the reader fetches each further one when it is read.          *)

\* ipfsPrefix of this variant
ipfsPrefixUnixfs == <<"/", "i", "p", "f", "s", "/">>

\* bytes per chunk of a stored file, and per read of io.Copy
ChunkSize == 1

\* the node an IPFS path names: its position in the store, 0 when absent
UnixLookup(nodes, pathStr) ==
    IF HasPrefix(pathStr, ipfsPrefixUnixfs)
    THEN LookupCid(nodes, SliceFrom(pathStr, Len(ipfsPrefixUnixfs)))
    ELSE 0

\* rPath.String() of an added file
UnixPath(nodes, n) == ipfsPrefixUnixfs \o CidString(BlockIndex(nodes, n))

\* a request as the server received it, before ServeHTTP has run
NewUnixRequest(method, rawPath, body) ==
    [method |-> method, rawPath |-> rawPath, body |-> body,
     pc |-> "received", deadline |-> FALSE, cancelled |-> FALSE,
     lookup |-> <<>>, node |-> 0, fed |-> <<>>, begun |-> FALSE,
     outcome |-> "none", calls |-> 0,
     prior |-> {i \in 1..Len(reqs) : reqs[i].pc = "done"},
     status |-> 0, msg |-> "", data |-> <<>>, path |-> <<>>]

\* http.Error: the status line, the headers and the message are written
UnixError(r, msg, status) == [HttpError(r, msg, status) EXCEPT !.begun = TRUE]

\* ServeHTTP from the start to the call of the store (or to the response
\* that ends it earlier).  POST hands the body, wrapped in MaxBytesReader,
\* to Unixfs().Add, which is the one to read it.
UnixServeHTTPCall(r) ==
    IF r.method = "GET"
    THEN IF r.rawPath = <<"/">> THEN [WriteHelp(r) EXCEPT !.begun = TRUE]
         ELSE IF ~HasPrefix(r.rawPath, pastePrefix)
              THEN UnixError(r, "Illegal paste path!", StatusNotAcceptable)
         ELSE [r EXCEPT !.pc = "store", !.deadline = TRUE, !.calls = @ + 1,
                        !.lookup = Replace1(r.rawPath, pastePrefix, ipfsPrefixUnixfs)]
    ELSE IF r.method = "POST"
    THEN IF r.rawPath # <<"/">>
         THEN UnixError(r, "Please POST new pastes to site root!", StatusBadRequest)
         ELSE [r EXCEPT !.pc = "store", !.calls = @ + 1]
    ELSE [r EXCEPT !.pc = "done", !.status = StatusOK, !.begun = TRUE]

\* getPaste once Unixfs().Get returned a node: a node that is no file is an
\* error; for a file the limited reader is returned, the deferred cancel()
\* ends the lookup's context, and the handler starts io.Copy
UnixFetched(r, nodes, n) ==
    IF ~nodes[n].file
    THEN [UnixError(r, "Paste not found!", StatusNotFound) EXCEPT !.cancelled = TRUE]
    ELSE [r EXCEPT !.pc = "copy", !.node = n, !.cancelled = TRUE]

\* the bytes the limited reader of a file delivers when read to the end
UnixReadable(nodes, n) == LimitRead(nodes[n].data, maxPasteSize)

\* one read and write of io.Copy: the first Write begins the response
UnixCopied(r, chunk) ==
    [r EXCEPT !.begun = TRUE, !.status = StatusOK, !.data = @ \o chunk]

\* ServeHTTP returns after io.Copy, whose result it does not look at: what
\* has been written is the response (an empty 200 when nothing was)
UnixCopyDone(r) == [r EXCEPT !.pc = "done", !.begun = TRUE, !.status = StatusOK]

\* the bytes Unixfs().Add gets from one read of the body through
\* MaxBytesReader
UnixBodyChunk(r) ==
    SubSeq(LimitRead(r.body, maxPasteSize), Len(r.fed) + 1, Len(r.fed) + ChunkSize)

\* ServeHTTP (POST) once putPaste returned an error
UnixPutFailed(r) ==
    UnixError(r, "Failed to put paste at CID", StatusInternalServerError)

\* ServeHTTP (POST) once putPaste returned the path of the added file
UnixPutStored(r, pathStr) ==
    [WritePath(r, Replace1(pathStr, ipfsPrefixUnixfs, pastePrefix)) EXCEPT !.begun = TRUE]

---------------------------------------------------------------------------
(* SpecUnix: the streaming unixfs variant serving requests concurrently.   *)

\* the requests: a POST to the root of every body, a POST elsewhere, a GET
\* of the root, of every node of the store, of an unknown one and of a path
\* without the paste prefix, and a request of another method
UnixInputs ==
    {[method |-> "POST", rawPath |-> <<"/">>, body |-> b] : b \in Bodies}
        \cup {[method |-> "POST", rawPath |-> <<"/", "a">>, body |-> <<1>>]}
        \cup {[method |-> "GET", rawPath |-> rp, body |-> <<>>] :
                 rp \in {pastePrefix \o c : c \in Cids} \cup {<<"/">>, <<"/", "a">>}}
        \cup {[method |-> "DELETE", rawPath |-> <<"/">>, body |-> <<>>]}

\* the repository holds what the IPFS node can reach: here a directory and
\* a file of one byte more than maxPasteSize
InitUnix ==
    /\ p = [text |-> <<>>]
    /\ ops = <<>>
    /\ sealed = <<>>
    /\ reqs = <<>>
    /\ store = <<[file |-> FALSE, data |-> <<>>],
                 [file |-> TRUE, data |-> BodyOfLen(maxPasteSize + 1)]>>

Copying(i) == i \in 1..Len(reqs) /\ reqs[i].pc = "copy"

\* a request arrives: ServeHTTP runs to its first blocking call
UnixArrives(in) ==
    /\ Len(reqs) < MaxRequests
    /\ reqs' = Append(reqs, UnixServeHTTPCall(
                   NewUnixRequest(in.method, in.rawPath, in.body)))
    /\ UNCHANGED <<p, ops, sealed, store>>

\* Unixfs().Add reads the next chunk of the body
UnixAddReads(i) ==
    /\ Pending(i) /\ reqs[i].method = "POST"
    /\ Len(reqs[i].fed) < Len(LimitRead(reqs[i].body, maxPasteSize))
    /\ reqs' = [reqs EXCEPT ![i].fed = @ \o UnixBodyChunk(reqs[i])]
    /\ UNCHANGED <<p, ops, sealed, store>>

\* Unixfs().Add has read the body to its end and returns the file's path
UnixAddReturns(i) ==
    /\ Pending(i) /\ reqs[i].method = "POST"
    /\ reqs[i].fed = reqs[i].body
    /\ store' = BlockPut(store, [file |-> TRUE, data |-> reqs[i].fed])
    /\ reqs' = [reqs EXCEPT ![i] =
                   UnixPutStored([@ EXCEPT !.outcome = "ok"],
                                 UnixPath(store', [file |-> TRUE, data |-> reqs[i].fed]))]
    /\ UNCHANGED <<p, ops, sealed>>

\* Unixfs().Add reads past maxPasteSize: MaxBytesReader returns its error,
\* and Add returns it
UnixAddTooLarge(i) ==
    /\ Pending(i) /\ reqs[i].method = "POST"
    /\ Len(reqs[i].body) > maxPasteSize
    /\ Len(reqs[i].fed) = maxPasteSize
    /\ reqs' = [reqs EXCEPT ![i] = UnixPutFailed([@ EXCEPT !.outcome = "toolarge"])]
    /\ UNCHANGED <<p, ops, sealed, store>>

\* Unixfs().Add returns an error of the store
UnixAddFails(i) ==
    /\ Pending(i) /\ reqs[i].method = "POST"
    /\ reqs' = [reqs EXCEPT ![i] = UnixPutFailed([@ EXCEPT !.outcome = "error"])]
    /\ UNCHANGED <<p, ops, sealed, store>>

\* Unixfs().Get returns the node
UnixGetReturns(i) ==
    /\ Pending(i) /\ reqs[i].method = "GET"
    /\ UnixLookup(store, reqs[i].lookup) # 0
    /\ reqs' = [reqs EXCEPT ![i] =
                   UnixFetched([@ EXCEPT !.outcome = "found"], store,
                               UnixLookup(store, reqs[i].lookup))]
    /\ UNCHANGED <<p, ops, sealed, store>>

\* Unixfs().Get reports that the store has no such node
UnixGetAbsent(i) ==
    /\ Pending(i) /\ reqs[i].method = "GET"
    /\ UnixLookup(store, reqs[i].lookup) = 0
    /\ reqs' = [reqs EXCEPT ![i] =
                   UnixError([@ EXCEPT !.outcome = "absent"],
                             "Paste not found!", StatusNotFound)]
    /\ UNCHANGED <<p, ops, sealed, store>>

\* Unixfs().Get fails for another reason
UnixGetFails(i) ==
    /\ Pending(i) /\ reqs[i].method = "GET"
    /\ reqs' = [reqs EXCEPT ![i] =
                   UnixError([@ EXCEPT !.outcome = "error"],
                             "Paste not found!", StatusNotFound)]
    /\ UNCHANGED <<p, ops, sealed, store>>

\* the deadline of the lookup's context fires while Unixfs().Get is pending
UnixGetDeadline(i) ==
    /\ Pending(i) /\ reqs[i].method = "GET"
    /\ reqs[i].deadline /\ ~reqs[i].cancelled
    /\ reqs' = [reqs EXCEPT ![i] =
                   UnixError([@ EXCEPT !.outcome = "timeout"],
                             "Paste not found!", StatusNotFound)]
    /\ UNCHANGED <<p, ops, sealed, store>>

\* io.Copy reads the next chunk of the file and writes it to the response
UnixCopyStep(i) ==
    /\ Copying(i)
    /\ Len(reqs[i].data) < Len(UnixReadable(store, reqs[i].node))
    /\ reqs' = [reqs EXCEPT ![i] =
                   UnixCopied(@, SubSeq(UnixReadable(store, reqs[i].node),
                                        Len(reqs[i].data) + 1,
                                        Len(reqs[i].data) + ChunkSize))]
    /\ UNCHANGED <<p, ops, sealed, store>>

\* io.Copy reaches the end of the limited reader
UnixCopyEnds(i) ==
    /\ Copying(i)
    /\ Len(reqs[i].data) = Len(UnixReadable(store, reqs[i].node))
    /\ reqs' = [reqs EXCEPT ![i] = UnixCopyDone(@)]
    /\ UNCHANGED <<p, ops, sealed, store>>

\* a read of io.Copy returns an error: the chunks of a file of more than
\* one chunk are fetched under the context that getPaste has cancelled
UnixCopyFails(i) ==
    /\ Copying(i)
    /\ Len(store[reqs[i].node].data) > ChunkSize
    /\ Len(reqs[i].data) < Len(UnixReadable(store, reqs[i].node))
    /\ reqs' = [reqs EXCEPT ![i] = UnixCopyDone([@ EXCEPT !.outcome = "readerror"])]
    /\ UNCHANGED <<p, ops, sealed, store>>

NextUnix ==
    \/ \E in \in UnixInputs : UnixArrives(in)
    \/ \E i \in 1..MaxRequests : UnixAddReads(i)
    \/ \E i \in 1..MaxRequests : UnixAddReturns(i)
    \/ \E i \in 1..MaxRequests : UnixAddTooLarge(i)
    \/ \E i \in 1..MaxRequests : UnixAddFails(i)
    \/ \E i \in 1..MaxRequests : UnixGetReturns(i)
    \/ \E i \in 1..MaxRequests : UnixGetAbsent(i)
    \/ \E i \in 1..MaxRequests : UnixGetFails(i)
    \/ \E i \in 1..MaxRequests : UnixGetDeadline(i)
    \/ \E i \in 1..MaxRequests : UnixCopyStep(i)
    \/ \E i \in 1..MaxRequests : UnixCopyEnds(i)
    \/ \E i \in 1..MaxRequests : UnixCopyFails(i)

SpecUnix == InitUnix /\ [][NextUnix]_vars

---------------------------------------------------------------------------
(* SpecPath: the mapping between public paste paths and store paths, as    *)
(* the handlers apply it (src/gibon.go:599 and :647), on a range of        *)
(* strings.                                                                *)

\* number of pieces a string is put together from
MaxPieces == 3

PathPieces ==
    {pastePrefix, ipfsPrefix, SliceTo(ipfsPrefix, Len(ipfsPrefix) - 1),
     CidString(1), <<"/">>, <<"x">>}

RECURSIVE PathsUpTo(_)
PathsUpTo(n) ==
    IF n = 0 THEN {<<>>}
    ELSE LET shorter == PathsUpTo(n - 1)
         IN  shorter \cup {s \o q : s \in shorter, q \in PathPieces}

\* strings.Replace(rawPath, pastePrefix, ipfsPrefix, 1)
internalize(s) == Replace1(s, pastePrefix, ipfsPrefix)

\* strings.Replace(pathStr, ipfsPrefix, pastePrefix, 1)
publicize(t) == Replace1(t, ipfsPrefix, pastePrefix)

InitPath ==
    /\ p \in [text : PathsUpTo(MaxPieces)]
    /\ ops = <<>>
    /\ sealed = <<>>
    /\ store = <<>>
    /\ reqs = <<>>

\* a string that contains "/paste/" is mapped to its store path
Internalize ==
    /\ ops = <<>>
    /\ Index(p.text, pastePrefix) # 0
    /\ p' = [text |-> internalize(p.text)]
    /\ ops' = Append(ops, [op |-> "internalize", before |-> p.text, after |-> p'.text])
    /\ UNCHANGED <<sealed, store, reqs>>

\* the store path is mapped back to a public path
Publicize ==
    /\ Len(ops) = 1
    /\ p' = [text |-> publicize(p.text)]
    /\ ops' = Append(ops, [op |-> "publicize", before |-> p.text, after |-> p'.text])
    /\ UNCHANGED <<sealed, store, reqs>>

NextPath == Internalize \/ Publicize

SpecPath == InitPath /\ [][NextPath]_vars

---------------------------------------------------------------------------
(* Claims about the cipher, checked under SpecPaste.                       *)

EncryptedOk(j) == ops[j].op = "encrypt" /\ ~ops[j].err

\* C1: Cipher round-trip.  Whenever encrypt(k) succeeded on a paste and
\* decrypt(k) with the same passphrase is the next call on the resulting
\* blob, decrypt returns no error and the text is again the one encrypt was
\* called on, for every text including the empty one.
C1_CipherRoundTrip ==
    \A j \in 1..(Len(ops) - 1) :
        (/\ EncryptedOk(j)
         /\ ops[j + 1].op = "decrypt"
         /\ ops[j + 1].key = ops[j].key)
        => (~ops[j + 1].err /\ ops[j + 1].after = ops[j].before)

\* the empty text has been encrypted and decrypted again
C1_Witness ==
    /\ Len(ops) >= 2
    /\ EncryptedOk(1) /\ ops[1].before = <<>>
    /\ ops[2].op = "decrypt" /\ ops[2].key = ops[1].key
    /\ ~ops[2].err /\ p.text = <<>>

\* C2: Authenticated decryption.  decrypt(k) returns no error only on a
\* text that an earlier encrypt(k) with the same passphrase produced; so a
\* blob made under another passphrase, a blob with one bit flipped and a
\* text that was never encrypted are all rejected.
C2_AuthenticatedDecryption ==
    \A j \in 1..Len(ops) :
        ops[j].op = "decrypt" =>
            /\ ~ops[j].err =>
                   \E i \in 1..(j - 1) :
                       /\ EncryptedOk(i)
                       /\ ops[i].key = ops[j].key
                       /\ ops[i].after = ops[j].before
            /\ (j > 1 /\ EncryptedOk(j - 1) /\ ops[j - 1].key # ops[j].key)
                   => ops[j].err
            /\ (j > 2 /\ EncryptedOk(j - 2) /\ ops[j - 1].op = "flip")
                   => ops[j].err
            /\ (\A i \in 1..(j - 1) : ~EncryptedOk(i)) => ops[j].err

\* a blob was flipped in one bit and then rejected under its own passphrase
C2_Witness ==
    /\ Len(ops) = 3
    /\ EncryptedOk(1) /\ ops[2].op = "flip"
    /\ ops[3].op = "decrypt" /\ ops[3].key = ops[1].key /\ ops[3].err

---------------------------------------------------------------------------
(* Claims about the encryption variant's handlers, checked under SpecEnc.  *)

IsGet(i) == Done(i) /\ reqs[i].method = "GET"
IsPost(i) == Done(i) /\ reqs[i].method = "POST"

\* the store answered the lookup of request g (it neither failed nor let the
\* deadline pass)
StoreAnswered(g) == reqs[g].outcome \notin {"error", "timeout"}

\* request g is a GET of the path that the earlier POST q was answered with
GetOfPosted(g, q) ==
    /\ IsGet(g) /\ q \in reqs[g].prior /\ IsPost(q)
    /\ reqs[q].status = StatusOK
    /\ reqs[q].path = pastePrefix \o reqs[g].cid

\* C3: Plain end-to-end round-trip.  A POST without a key whose body is at
\* most maxPasteSize bytes reaches the store and, when the store takes the
\* block, is answered with a path that starts with /paste/; a later GET of
\* that path without a key that the store answers returns status 200 and
\* exactly the posted body.
C3_PlainRoundTrip ==
    /\ \A q \in 1..Len(reqs) :
           (IsPost(q) /\ reqs[q].query = <<>> /\ Len(reqs[q].body) <= maxPasteSize)
           => /\ reqs[q].outcome \in {"ok", "error"}
              /\ reqs[q].outcome = "ok"
                     => /\ reqs[q].status = StatusOK
                        /\ HasPrefix(reqs[q].path, pastePrefix)
                        /\ Len(reqs[q].path) > Len(pastePrefix)
    /\ \A g \in 1..Len(reqs) : \A q \in 1..Len(reqs) :
           (/\ GetOfPosted(g, q)
            /\ reqs[q].query = <<>> /\ reqs[g].query = <<>>
            /\ StoreAnswered(g))
           => (reqs[g].status = StatusOK /\ reqs[g].data = reqs[q].body)

\* a body of exactly maxPasteSize bytes was posted and fetched again
C3_Witness ==
    \E g \in 1..Len(reqs) : \E q \in 1..Len(reqs) :
        /\ GetOfPosted(g, q)
        /\ reqs[q].query = <<>> /\ reqs[g].query = <<>>
        /\ Len(reqs[q].body) = maxPasteSize
        /\ reqs[g].data = reqs[q].body

\* C4: Encrypted end-to-end round-trip at every accepted size.  For every
\* body the POST handler accepts and every non-empty key k, a GET with
\* ?key=k of the path that POST /?key=k was answered with (and that the
\* store answers) returns status 200 and exactly the posted body.
C4_EncryptedRoundTrip ==
    \A g \in 1..Len(reqs) : \A q \in 1..Len(reqs) :
        (/\ GetOfPosted(g, q)
         /\ QueryGet(reqs[q].query) # ""
         /\ reqs[g].query = reqs[q].query
         /\ StoreAnswered(g))
        => (reqs[g].status = StatusOK /\ reqs[g].data = reqs[q].body)

\* the blobs that encrypt produced under passphrase k: those of the POST
\* requests with that key, and the earlier paste of the repository
ProducedUnder(k) ==
    {reqs[q].text : q \in {i \in 1..Len(reqs) :
                              /\ reqs[i].method = "POST"
                              /\ QueryGet(reqs[i].query) = k
                              /\ reqs[i].outcome \in {"ok", "error"} \/ reqs[i].pc = "store"}}
        \cup (IF k = "secret" /\ sealed # <<>> /\ sealed[1] = EarlierPaste.sealed[1]
              THEN {EarlierPaste.text} ELSE {})

\* the bytes getPaste read for the finished GET g that found its block
Fetched(g) == getPasteRead(store[LookupCid(store, reqs[g].cid)])

\* C6: Decrypt failure at the handler.  When a GET with a non-empty key k
\* fetched bytes that no encrypt under k produced (a blob of another key, a
\* tampered blob, a plain paste), the response is 500 "Paste decryption
\* failed!" and carries no paste bytes.
C6_DecryptFailure ==
    \A g \in 1..Len(reqs) :
        (/\ IsGet(g) /\ reqs[g].outcome = "found"
         /\ QueryGet(reqs[g].query) # ""
         /\ Fetched(g) \notin ProducedUnder(QueryGet(reqs[g].query)))
        => /\ reqs[g].status = StatusInternalServerError
           /\ reqs[g].msg = "Paste decryption failed!"
           /\ reqs[g].data = <<>> /\ reqs[g].path = <<>>

\* a tampered blob was fetched with the key of the original and refused
C6_Witness ==
    \E g \in 1..Len(reqs) :
        /\ IsGet(g) /\ reqs[g].outcome = "found"
        /\ reqs[g].query = <<"secret">>
        /\ Fetched(g) \in Flips(EarlierPaste.text)
        /\ reqs[g].status = StatusInternalServerError

\* C7: Deadline-bounded lookup.  A GET that is waiting for the store does
\* not wait forever: it gets its response, and when it is the deadline that
\* ends the wait the response is 404 "Paste not found!", the same as for an
\* identifier the store reports absent.
C7_DeadlineBounded ==
    /\ \A i \in 1..MaxRequests :
           (Pending(i) /\ reqs[i].method = "GET") ~> Done(i)
    /\ [](\A i \in 1..Len(reqs) :
              (IsGet(i) /\ reqs[i].outcome \in {"timeout", "absent"})
              => /\ reqs[i].status = StatusNotFound
                 /\ reqs[i].msg = "Paste not found!"
                 /\ reqs[i].data = <<>>)

\* a lookup was ended by its deadline and answered 404
C7_Witness ==
    \E i \in 1..Len(reqs) :
        /\ IsGet(i) /\ reqs[i].outcome = "timeout"
        /\ reqs[i].status = StatusNotFound

\* C8 as stated: whenever the store fails for a reason other than not-found
\* or timeout, on the get path as on the put path, the response is a 5xx.
C8_StoreFailureIs5xx ==
    \A i \in 1..Len(reqs) :
        (Done(i) /\ reqs[i].outcome = "error")
        => reqs[i].status \in 500..599

\* C8 (amended): a store failure on the put path is answered with 500
\* "Failed to put paste in store"; a store failure on the get path is
\* answered with 404 "Paste not found!", like an absent paste.
C8_StoreFailureResponses ==
    \A i \in 1..Len(reqs) :
        (Done(i) /\ reqs[i].outcome = "error")
        => /\ reqs[i].method = "POST"
                  => /\ reqs[i].status = StatusInternalServerError
                     /\ reqs[i].msg = "Failed to put paste in store"
           /\ reqs[i].method = "GET"
                  => /\ reqs[i].status = StatusNotFound
                     /\ reqs[i].msg = "Paste not found!"
           /\ reqs[i].data = <<>> /\ reqs[i].path = <<>>

\* the store failed a put and a get
C8_Witness ==
    /\ \E i \in 1..Len(reqs) : IsPost(i) /\ reqs[i].outcome = "error"
    /\ \E i \in 1..Len(reqs) : IsGet(i) /\ reqs[i].outcome = "error"

---------------------------------------------------------------------------
(* Claims about the structured variant.                                    *)

\* C5: Envelope round-trip.  For every valid Paste p (name of allowed
\* characters, any text), pasteFromJSON(p.toJSON()) returns no error and a
\* Paste with the same name and the same text.
C5_EnvelopeRoundTrip ==
    Len(ops) = 2 =>
        /\ ~ops[2].out.err
        /\ ops[2].out.paste.Name = p.Name
        /\ ops[2].out.paste.Text = p.Text

\* the name of a POST: its path minus the leading slash
PostName(i) == TrimSlash(reqs[i].rawPath)

AllowedChars == Range(LowerSeq) \cup Range(UpperSeq) \cup Range(DigitSeq) \cup {"."}

\* C9: Name validation precedes the store.  A POST whose path, minus the
\* leading slash, holds a character outside [A-Za-z0-9.] is answered at once
\* with a client error (4xx): the body has not been read and the request has
\* made no store call.
C9_NameValidationFirst ==
    \A i \in 1..Len(reqs) :
        (/\ reqs[i].method = "POST"
         /\ \E k \in 1..Len(PostName(i)) : PostName(i)[k] \notin AllowedChars)
        => /\ reqs[i].pc = "done"
           /\ reqs[i].status \in 400..499
           /\ reqs[i].calls = 0 /\ reqs[i].outcome = "none"
           /\ ~reqs[i].bodyRead
           /\ reqs[i].text = <<>>

\* a short name with a forbidden character was refused with 400
C9_Witness ==
    \E i \in 1..Len(reqs) :
        /\ reqs[i].method = "POST" /\ reqs[i].rawPath = <<"/", "a", "_">>
        /\ reqs[i].status = StatusBadRequest /\ reqs[i].calls = 0
        /\ store = <<>>

\* C10: Name length cap.  A POST whose name consists only of allowed
\* characters reaches the store when the name is at most maxTitleSize bytes
\* long (and the body at most maxPasteSize), and is rejected with a client
\* error when the name is longer.
C10_NameLengthCap ==
    \A i \in 1..Len(reqs) :
        (/\ reqs[i].method = "POST"
         /\ IsAbs(reqs[i].rawPath)
         /\ \A k \in 1..Len(PostName(i)) : PostName(i)[k] \in AllowedChars)
        => /\ (Len(PostName(i)) <= maxTitleSize /\ Len(reqs[i].body) <= maxPasteSize)
                  => /\ reqs[i].calls = 1
                     /\ reqs[i].status \notin 400..499
                     /\ reqs[i].outcome = "ok" => reqs[i].status = StatusOK
           /\ Len(PostName(i)) > maxTitleSize
                  => /\ reqs[i].pc = "done"
                     /\ reqs[i].status \in 400..499
                     /\ reqs[i].calls = 0

---------------------------------------------------------------------------
(* Claims about the streaming unixfs variant, checked under SpecUnix.      *)

\* C11: Oversized bodies never reach the store.  A POST whose body is longer
\* than maxPasteSize causes no store put/add call to be made with any part
\* of that body: the request has made no store call and the store has been
\* given none of its bytes.
C11_OversizedNeverStored ==
    \A i \in 1..Len(reqs) :
        (reqs[i].method = "POST" /\ Len(reqs[i].body) > maxPasteSize)
        => reqs[i].calls = 0 /\ reqs[i].fed = <<>>

\* C18: No partial responses.  Every GET that begins a success response
\* delivers all bytes of the stored paste up to maxPasteSize; any retrieval
\* failure, the end of the deadline context of getPaste included, happens
\* before the response is begun and results in an error status instead.
C18_NoPartialResponses ==
    \A g \in 1..Len(reqs) :
        (Done(g) /\ reqs[g].method = "GET" /\ reqs[g].calls > 0)
        => IF reqs[g].outcome = "found" /\ reqs[g].node # 0
           THEN /\ reqs[g].status = StatusOK
                /\ reqs[g].data = UnixReadable(store, reqs[g].node)
           ELSE /\ reqs[g].status \in 400..599
                /\ reqs[g].data = <<>>

---------------------------------------------------------------------------
(* Further claims about the structured variant, checked under SpecServe.   *)

\* the client-caused reasons for which a request is rejected
ClientCaused(r) ==
    \/ ~IsAbs(r.rawPath)
    \/ Len(r.rawPath) > maxTitleSize
    \/ r.method = "GET" /\ r.rawPath # <<"/">> /\ ~HasPrefix(r.rawPath, pastePrefix)
    \/ r.method = "POST" /\ \E k \in 1..Len(TrimSlash(r.rawPath)) :
                                TrimSlash(r.rawPath)[k] \notin AllowedChars
    \/ r.method = "POST" /\ Len(r.body) > maxPasteSize
    \/ r.method \notin {"GET", "POST"}

\* C12: Client-caused rejections are 4xx.  Every request rejected for a
\* client-caused reason (non-absolute or over-long path, GET path without
\* the paste prefix, invalid name, oversized body, a method other than GET
\* and POST) receives a 4xx status and causes no store interaction.
C12_ClientErrorsAre4xx ==
    \A i \in 1..Len(reqs) :
        ClientCaused(reqs[i])
        => /\ reqs[i].pc = "done"
           /\ reqs[i].status \in 400..499
           /\ reqs[i].calls = 0

---------------------------------------------------------------------------
(* Further claims about the encryption variant, checked under SpecEnc.     *)

\* request i carries a key query parameter, whatever its value
KeyPresent(i) == reqs[i].query # <<>>

\* b is a cipher output for the text t under the passphrase k: a nonce, the
\* ciphertext and the tag, which decrypt turns back into t
CipherOutputOf(b, t, k) ==
    /\ Len(b) = NonceSize + Len(t) + 1
    /\ decrypt(b, k, sealed) = [err |-> FALSE, text |-> t]

\* C13: Encryption is toggled by presence of the key parameter.  For every
\* POST that puts to the store, the bytes put are the cipher output
\* nonce||ciphertext whenever a key query parameter is present, for every
\* value of it including the empty string, and exactly the body whenever it
\* is absent; on GET the same rule decides whether decrypt is applied.
C13_KeyPresenceToggles ==
    /\ \A i \in 1..Len(reqs) :
           (reqs[i].method = "POST" /\ reqs[i].calls > 0)
           => IF KeyPresent(i)
              THEN CipherOutputOf(reqs[i].text, reqs[i].body, QueryGet(reqs[i].query))
              ELSE reqs[i].text = reqs[i].body
    /\ \A g \in 1..Len(reqs) :
           (IsGet(g) /\ reqs[g].outcome = "found")
           => IF KeyPresent(g)
              THEN LET d == decrypt(Fetched(g), QueryGet(reqs[g].query), sealed)
                   IN  IF d.err THEN reqs[g].status = StatusInternalServerError
                       ELSE reqs[g].status = StatusOK /\ reqs[g].data = d.text
              ELSE reqs[g].status = StatusOK /\ reqs[g].data = Fetched(g)

\* the response of the finished request i is the one its own input and the
\* store's answer to it determine
OwnResponse(i) ==
    LET r == reqs[i]
    IN  CASE r.method = "POST" /\ r.outcome = "ok" ->
                 /\ r.status = StatusOK
                 /\ HasPrefix(r.path, pastePrefix)
                 /\ LookupCid(store, SliceFrom(r.path, Len(pastePrefix))) # 0
                 /\ store[LookupCid(store, SliceFrom(r.path, Len(pastePrefix)))] = r.text
          [] r.method = "POST" /\ r.outcome = "error" ->
                 r.status = StatusInternalServerError /\ r.path = <<>>
          [] r.method = "POST" /\ r.outcome = "none" ->
                 /\ r.status = StatusInternalServerError /\ r.calls = 0
                 /\ Len(r.body) > maxPasteSize \/ QueryGet(r.query) # ""
          [] r.method = "GET" /\ r.outcome = "found" ->
                 r = getPasteFetched([r EXCEPT !.pc = "store", !.status = 0,
                                               !.msg = "", !.data = <<>>],
                                     Fetched(i), sealed)
          [] OTHER ->
                 r.status = StatusNotFound /\ r.data = <<>>

\* C19: Request isolation under concurrency.  In every interleaving of
\* concurrently handled requests, each response is the one the request's own
\* input and the store's answer determine; a step of one request changes no
\* other request, the handlers share no paste, and only a put that the store
\* takes changes the store, which it extends: a request that fails changes
\* neither another request in flight nor what later requests can be served.
C19_RequestIsolation ==
    /\ [](\A i \in 1..Len(reqs) : Done(i) => OwnResponse(i))
    /\ [][/\ Len(reqs') >= Len(reqs)
          /\ \A j \in 1..Len(reqs) :
                 reqs'[j] # reqs[j]
                 => \A k \in 1..Len(reqs) : k # j => reqs'[k] = reqs[k]
          /\ p' = p
          /\ Len(store') >= Len(store) /\ SubSeq(store', 1, Len(store)) = store
          /\ store' # store
                 => \E j \in 1..Len(reqs) :
                        /\ Pending(j) /\ reqs[j].method = "POST"
                        /\ reqs'[j].outcome = "ok"]_vars

\* a put failed while a lookup was in flight, and the lookup was served
C19_Witness ==
    /\ Len(reqs) = 2
    /\ reqs[1].method = "POST" /\ reqs[1].outcome = "error"
    /\ reqs[1].status = StatusInternalServerError
    /\ reqs[2].method = "GET" /\ 1 \notin reqs[2].prior
    /\ reqs[2].outcome = "found" /\ reqs[2].status = StatusOK

---------------------------------------------------------------------------
(* Further claims about the cipher, checked under SpecPaste.               *)

\* calls j and k are two successful encrypt calls with the same plaintext
\* and the same passphrase
SameEncryption(j, k) ==
    /\ j < k /\ EncryptedOk(j) /\ EncryptedOk(k)
    /\ ops[j].key = ops[k].key
    /\ ops[j].before = ops[k].before

\* C14: Encryption never repeats a blob.  Any two calls of paste.encrypt
\* with the same plaintext and the same passphrase produce different blobs.
C14_NeverRepeatsBlob ==
    \A j, k \in 1..Len(ops) :
        SameEncryption(j, k) => ops[j].after # ops[k].after

\* C14, amended: two calls of paste.encrypt with the same plaintext and the
\* same passphrase produce different blobs whenever rand.Read delivered
\* different nonces to them, and the same blob when it delivered the same.
C14_BlobsDifferWithNonces ==
    \A j, k \in 1..Len(ops) :
        SameEncryption(j, k)
        => (ops[j].after # ops[k].after <=> ops[j].nonce # ops[k].nonce)

\* a text was encrypted twice under one passphrase with different nonces
C14_Witness ==
    \E j, k \in 1..Len(ops) :
        /\ SameEncryption(j, k)
        /\ ops[j].nonce # ops[k].nonce
        /\ ops[j].after # ops[k].after

\* C16: A paste is immutable after construction.  paste.encrypt and
\* paste.decrypt leave the text field of the paste they are called on
\* unchanged: the text is after every call what it was before it.
C16_PasteImmutable ==
    \A j \in 1..Len(ops) :
        ops[j].op \in {"encrypt", "decrypt"} => ops[j].after = ops[j].before

\* C16, amended: paste.encrypt and paste.decrypt replace the text of the
\* paste they are called on when they succeed: after encrypt the text is the
\* nonce followed by the sealed text (which decrypt under the same passphrase
\* turns back into the text before the call), after decrypt it is the opened
\* plaintext; the paste holds no other copy of its text.
C16_TextReplacedInPlace ==
    /\ \A j \in 1..Len(ops) :
           /\ EncryptedOk(j)
                  => /\ Len(ops[j].after) = NonceSize + Len(ops[j].before) + 1
                     /\ SliceTo(ops[j].after, NonceSize) = ops[j].nonce
                     /\ decrypt(ops[j].after, ops[j].key, sealed)
                            = [err |-> FALSE, text |-> ops[j].before]
           /\ (ops[j].op = "decrypt" /\ ~ops[j].err)
                  => /\ Len(ops[j].after) = Len(ops[j].before) - NonceSize - 1
                     /\ \E n \in Nonces :
                            encrypt(ops[j].after, ops[j].key,
                                    [err |-> FALSE, nonce |-> n], sealed).text
                                = ops[j].before
    /\ Len(ops) > 0 => p.text = ops[Len(ops)].after

\* a paste has been encrypted and decrypted, its text replaced both times
C16_Witness ==
    \E j \in 1..(Len(ops) - 1) :
        /\ EncryptedOk(j) /\ ops[j].after # ops[j].before
        /\ ops[j + 1].op = "decrypt" /\ ~ops[j + 1].err
        /\ ops[j + 1].after # ops[j + 1].before
        /\ p.text = ops[Len(ops)].after

\* C20: Failed decrypt changes nothing.  Whenever paste.decrypt returns an
\* error, the paste's text is what it was before the call; a text shorter
\* than the nonce size is rejected (before any slicing at the nonce
\* boundary), so it always is such a call.
C20_FailedDecryptKeepsText ==
    \A j \in 1..Len(ops) :
        ops[j].op = "decrypt"
        => /\ ops[j].err => ops[j].after = ops[j].before
           /\ Len(ops[j].before) < NonceSize => ops[j].err
           /\ (ops[j].err /\ j = Len(ops)) => p.text = ops[j].before

\* decrypt has failed on a text shorter than the nonce and, after an
\* encrypt, on the blob under another passphrase, the text unchanged each time
C20_Witness ==
    /\ Len(ops) = 3
    /\ ops[1].op = "decrypt" /\ ops[1].err
    /\ Len(ops[1].before) < NonceSize /\ ops[1].after = ops[1].before
    /\ EncryptedOk(2)
    /\ ops[3].op = "decrypt" /\ ops[3].err /\ ops[3].key # ops[2].key
    /\ ops[3].after = ops[2].after /\ p.text = ops[2].after

\* the bytes getPaste read for the GET g that found its block
ServeFetchedBytes(g) ==
    LimitRead(store[LookupPath(store, reqs[g].lookup)], maxJSONSize)

\* C17: Malformed envelopes yield no Paste.  Whenever the bytes fetched from
\* the store are not a well-formed structured object, getPaste returns an
\* error together with no Paste value (none of whose fields is populated),
\* and the GET handler answers with an error response that carries no paste
\* field.
C17_MalformedYieldsNoPaste ==
    \A g \in 1..Len(reqs) :
        (/\ reqs[g].method = "GET" /\ reqs[g].outcome = "found"
         /\ pasteFromJSON(ServeFetchedBytes(g)).err)
        => /\ reqs[g].got.err
           /\ reqs[g].got.paste = [Name |-> <<>>, Text |-> <<>>]
           /\ reqs[g].status \in 400..599
           /\ reqs[g].data = <<>>

\* C21: Stored envelopes fit the read limit.  Every envelope written by an
\* accepted POST (path of at most maxTitleSize bytes, body of at most
\* maxPasteSize bytes) is at most maxJSONSize bytes long, so the LimitReader
\* in getPaste never truncates an envelope that this service stored.
C21_EnvelopeFitsReadLimit ==
    /\ \A i \in 1..Len(reqs) :
           (reqs[i].method = "POST" /\ reqs[i].calls > 0)
           => /\ Len(reqs[i].rawPath) <= maxTitleSize
              /\ Len(reqs[i].body) <= maxPasteSize
              /\ Len(reqs[i].text) <= maxJSONSize
              /\ LimitRead(reqs[i].text, maxJSONSize) = reqs[i].text
    /\ \A g \in 1..Len(reqs), q \in 1..Len(reqs) :
           (/\ reqs[g].method = "GET" /\ reqs[g].outcome = "found"
            /\ reqs[q].method = "POST" /\ reqs[q].outcome = "ok"
            /\ store[LookupPath(store, reqs[g].lookup)] = reqs[q].text)
           => ServeFetchedBytes(g) = reqs[q].text

\* the longest name with the longest body has been stored, and a GET has read
\* the whole envelope back
C21_Witness ==
    /\ Len(reqs) = 2
    /\ reqs[1].method = "POST" /\ reqs[1].outcome = "ok"
    /\ Len(reqs[1].rawPath) = maxTitleSize /\ Len(reqs[1].body) = maxPasteSize
    /\ reqs[2].method = "GET" /\ reqs[2].outcome = "found"
    /\ ServeFetchedBytes(2) = reqs[1].text
    /\ reqs[2].status = StatusOK /\ reqs[2].data = reqs[1].body

---------------------------------------------------------------------------
(* Claims about the path mapping, checked under SpecPath.                  *)

\* C15: Path mapping round-trip.  publicize(internalize(s)) == s for every
\* string s that contains "/paste/".
C15_PathRoundTrip ==
    Len(ops) = 2 => ops[2].after = ops[1].before

\* C15, amended: publicize(internalize(s)) == s for every string s that
\* starts with "/paste/", and for a string that contains "/paste/" exactly
\* when, after internalize, the first store prefix is the one that was put
\* in.
C15_PrefixedPathRoundTrip ==
    Len(ops) = 2
    => /\ HasPrefix(ops[1].before, pastePrefix) => ops[2].after = ops[1].before
       /\ ops[2].after = ops[1].before
              <=> Index(ops[1].after, ipfsPrefix) = Index(ops[1].before, pastePrefix)

\* a path that starts with "/paste/" and holds the store prefix further on
\* has been mapped forth and back
C15_Witness ==
    /\ Len(ops) = 2
    /\ ops[1].before = pastePrefix \o CidString(1) \o ipfsPrefix
    /\ ops[1].after = ipfsPrefix \o CidString(1) \o ipfsPrefix
    /\ p.text = ops[1].before

=============================================================================
